---- MODULE Spec2Model ----
(***************************************************************************)
(* SecurityMonitor (src/SecurityMonitor.cpp): a hidden message-only window *)
(* whose window procedure turns clipboard and device-change messages into  *)
(* lines of an append-only log.                                            *)
(*                                                                         *)
(* The model follows main() statement by statement (pc is main's position) *)
(* and WindowProc() case by case.  The operating system is the             *)
(* environment: it posts messages to the thread's queue, lets API calls    *)
(* fail, and lets the disk fill up.  Timestamps (GetTimestamp) prefix      *)
(* every line with the wall clock and are left out of the lines.           *)
(***************************************************************************)
EXTENDS Integers, Sequences, FiniteSets, TLC

(***************************************************************************)
(* Bounds of the model.                                                    *)
(***************************************************************************)
MaxMsgs == 2        \* messages the environment posts in one run
MaxPathLen == 2     \* code units of a device path (classification inputs)
MaxMaskBits == 2    \* set bits of a unit mask (classification inputs)

(***************************************************************************)
(* Program constants (dbt.h values used by WindowProc).                    *)
(***************************************************************************)
DBT_DEVICEARRIVAL == 32768
DBT_DEVICEREMOVECOMPLETE == 32772
DBT_DEVICEQUERYREMOVE == 32769
DBT_DEVNODES_CHANGED == 7
DBT_DEVTYP_OEM == 0
DBT_DEVTYP_VOLUME == 2
DBT_DEVTYP_PORT == 3
DBT_DEVTYP_DEVICEINTERFACE == 5
DBT_DEVTYP_HANDLE == 6
DriveLetters == 26      \* for (char i = 0; i < 26; ++i)
DwordBits == 32         \* DWORD driveMask
CharA == 65             \* 'A'
CharQuestion == 63      \* '?'

\* GUID_DEVINTERFACE_USB_DEVICE as the 16 bytes IsEqualGUID compares
\* (Data1, Data2, Data3 little-endian, then Data4).
GUID_DEVINTERFACE_USB_DEVICE ==
  <<16, 191, 220, 165, 48, 101, 210, 17, 144, 31, 0, 192, 79, 185, 81, 237>>

GUID_NULL == <<0, 0, 0, 0, 0, 0, 0, 0, 0, 0, 0, 0, 0, 0, 0, 0>>

\* Error codes GetLastError may report for a failed call.
ErrorCodes == {5}

(***************************************************************************)
(* Log lines.  A line is the fixed text of the LogEvent call and the       *)
(* variable part appended to it (path bytes, drive letter, error code).    *)
(***************************************************************************)
Line(text, arg) == [text |-> text, arg |-> arg]

(***************************************************************************)
(* Messages and their payloads.  lParam of WM_DEVICECHANGE points to a     *)
(* DEV_BROADCAST_HDR; null = TRUE is the null pointer.  A unit mask is the *)
(* set of its set bit positions.                                           *)
(***************************************************************************)
NullPayload ==
  [null |-> TRUE, devicetype |-> 0, classguid |-> GUID_NULL, name |-> <<>>, unitmask |-> {}]

InterfacePayload(guid, name) ==
  [null |-> FALSE, devicetype |-> DBT_DEVTYP_DEVICEINTERFACE, classguid |-> guid,
   name |-> name, unitmask |-> {}]

VolumePayload(mask) ==
  [null |-> FALSE, devicetype |-> DBT_DEVTYP_VOLUME, classguid |-> GUID_NULL,
   name |-> <<>>, unitmask |-> mask]

OtherPayload(devicetype) ==
  [null |-> FALSE, devicetype |-> devicetype, classguid |-> GUID_NULL,
   name |-> <<>>, unitmask |-> {}]

Msg(hwnd, message, wParam, lParam) ==
  [hwnd |-> hwnd, message |-> message, wParam |-> wParam, lParam |-> lParam]

\* MSG msg = {};
EmptyMsg == Msg("NULL", "WM_NULL", 0, NullPayload)

(***************************************************************************)
(* WideCharToMultiByte(CP_UTF8, 0, ...): UTF-16 code units to UTF-8 bytes. *)
(* A surrogate pair becomes four bytes, a lone surrogate U+FFFD.           *)
(***************************************************************************)
IsHighSurrogate(c) == c >= 55296 /\ c <= 56319
IsLowSurrogate(c) == c >= 56320 /\ c <= 57343

RECURSIVE WideCharToMultiByte(_)
WideCharToMultiByte(w) ==
  IF w = <<>> THEN <<>>
  ELSE LET c == Head(w) IN
    IF c < 128 THEN <<c>> \o WideCharToMultiByte(Tail(w))
    ELSE IF c < 2048 THEN
      <<192 + (c \div 64), 128 + (c % 64)>> \o WideCharToMultiByte(Tail(w))
    ELSE IF IsHighSurrogate(c) /\ Len(w) >= 2 /\ IsLowSurrogate(w[2]) THEN
      LET cp == 65536 + (c - 55296) * 1024 + (w[2] - 56320) IN
        <<240 + (cp \div 262144), 128 + ((cp \div 4096) % 64),
          128 + ((cp \div 64) % 64), 128 + (cp % 64)>>
        \o WideCharToMultiByte(Tail(Tail(w)))
    ELSE IF IsHighSurrogate(c) \/ IsLowSurrogate(c) THEN
      <<239, 191, 189>> \o WideCharToMultiByte(Tail(w))
    ELSE
      <<224 + (c \div 4096), 128 + ((c \div 64) % 64), 128 + (c % 64)>>
      \o WideCharToMultiByte(Tail(w))

\* devPathW -> devPathA: the first call sizes the buffer, the second fills
\* it; for an empty devPathW both calls fail with 0 and devPathA is empty.
ConvertPath(devPathW) ==
  LET size_needed == Len(WideCharToMultiByte(devPathW))
      devPathA == [i \in 1..size_needed |-> 0]
  IN IF size_needed = 0 THEN devPathA
     ELSE [i \in 1..size_needed |-> WideCharToMultiByte(devPathW)[i]]

IsEqualGUID_FirstFieldOnly(a, b) == SubSeq(a, 1, 4) = SubSeq(b, 1, 4)

\* IsEqualGUID: memcmp of the 16 bytes.
IsEqualGUID(a, b) == \A i \in 1..16 : a[i] = b[i]

\* The loop of lines 155-160: i runs over 0..25 and stops at the first set bit.
RECURSIVE DriveLoop(_, _, _)
DriveLoop(driveMask, i, driveLetter) ==
  IF i < DriveLetters THEN
    IF i \in driveMask THEN CharA + i
    ELSE DriveLoop(driveMask, i + 1, driveLetter)
  ELSE driveLetter

RECURSIVE DriveLoop_NoBreak(_, _, _)
DriveLoop_NoBreak(driveMask, i, driveLetter) ==
  IF i < DriveLetters THEN
    DriveLoop_NoBreak(driveMask, i + 1, IF i \in driveMask THEN CharA + i ELSE driveLetter)
  ELSE driveLetter

DecodeDriveLetter_NoBreak(driveMask) == DriveLoop_NoBreak(driveMask, 0, CharQuestion)

\* Lines 153-160: char driveLetter = '?'; then the loop.
DecodeDriveLetter(driveMask) == DriveLoop(driveMask, 0, CharQuestion)

(***************************************************************************)
(* State.                                                                  *)
(***************************************************************************)
VARIABLES
  pc,            \* main's position
  exitCode,      \* main's return value ("none" while running)
  g_hwnd,        \* the handle main holds: "NULL" or "HWND"
  msg,           \* main's MSG msg
  console,       \* std::cout, line by line
  logFile,       \* the lines this run appended to the log file
  cerr,          \* std::cerr, line by line
  logOpen,       \* g_logFile.is_open()
  logBad,        \* g_logFile.fail(): set by a failed write, never cleared
  windowExists,  \* the window behind g_hwnd exists
  clipListener,  \* the window is a clipboard format listener
  devNotify,     \* the window is registered for device notifications
  queue,         \* the thread's posted-message queue
  quitPending,   \* PostQuitMessage's flag
  quitCode,      \* and its exit code
  calls,         \* the subscription and window API calls made so far
  diskFull,      \* environment: writes to the log file fail now
  injected,      \* messages the environment has posted
  arrived,       \* the messages in the order they were posted
  handled        \* the messages in the order DispatchMessage dispatched them

vars == <<pc, exitCode, g_hwnd, msg, console, logFile, cerr, logOpen, logBad,
          windowExists, clipListener, devNotify, queue, quitPending, quitCode,
          calls, diskFull, injected, arrived, handled>>

\* Everything the logging functions, the window procedure and the window
\* API read or write, as one record.
World ==
  [console |-> console, logFile |-> logFile, cerr |-> cerr, logOpen |-> logOpen,
   logBad |-> logBad, windowExists |-> windowExists, clipListener |-> clipListener,
   devNotify |-> devNotify, queue |-> queue, quitPending |-> quitPending,
   quitCode |-> quitCode, calls |-> calls, diskFull |-> diskFull]

Commit(W) ==
  /\ console' = W.console
  /\ logFile' = W.logFile
  /\ cerr' = W.cerr
  /\ logOpen' = W.logOpen
  /\ logBad' = W.logBad
  /\ windowExists' = W.windowExists
  /\ clipListener' = W.clipListener
  /\ devNotify' = W.devNotify
  /\ queue' = W.queue
  /\ quitPending' = W.quitPending
  /\ quitCode' = W.quitCode
  /\ calls' = W.calls
  /\ diskFull' = W.diskFull

Cout(W, line) == [W EXCEPT !.console = Append(@, line)]
Cerr(W, line) == [W EXCEPT !.cerr = Append(@, line)]
Call(W, api, ok) ==
  [W EXCEPT !.calls = Append(@, [api |-> api, live |-> W.windowExists, ok |-> ok])]

LogEvent_Silent(W, message) ==
  LET W1 == Cout(W, Line(message.text, message.arg)) IN
  IF W1.logOpen THEN
    IF ~W1.logBad /\ ~W1.diskFull
    THEN [W1 EXCEPT !.logFile = Append(@, message)]
    ELSE [W1 EXCEPT !.logBad = TRUE]
  ELSE W1

LogEvent_ClearsFailure(W, message) ==
  LET W1 == Cout(W, Line(message.text, message.arg)) IN
  IF W1.logOpen THEN
    IF ~W1.diskFull
    THEN [W1 EXCEPT !.logFile = Append(@, message), !.logBad = FALSE]
    ELSE Cerr([W1 EXCEPT !.logBad = TRUE],
              Line("FATAL: Failed to write to log file", <<>>))
  ELSE Cerr(W1, Line("ERROR: Log file is not open. Cannot log: ", <<>>))

(***************************************************************************)
(* LogEvent, LogError (lines 53-79).                                       *)
(***************************************************************************)
\* The line goes to std::cout; if the file is open it is written and
\* flushed, and a stream that has failed (now or before) reports the failure.
LogEvent(W, message) ==
  LET W1 == Cout(W, Line(message.text, message.arg)) IN
  IF W1.logOpen THEN
    IF ~W1.logBad /\ ~W1.diskFull
    THEN [W1 EXCEPT !.logFile = Append(@, message)]
    ELSE Cerr([W1 EXCEPT !.logBad = TRUE],
              Line("FATAL: Failed to write to log file", <<>>))
  ELSE Cerr(W1, Line("ERROR: Log file is not open. Cannot log: ", <<>>))

LogError(W, context, errorCode) ==
  LogEvent(W, Line("ERROR in " \o context, <<errorCode>>))

(***************************************************************************)
(* WindowProc (lines 98-179).                                              *)
(***************************************************************************)
PostQuitMessage_Forgotten(W, nExitCode) == W

\* PostQuitMessage sets the thread's quit flag and exit code.
PostQuitMessage(W, nExitCode) ==
  [W EXCEPT !.quitPending = TRUE, !.quitCode = nExitCode]

\* case WM_DESTROY (lines 100-103)
OnDestroy(W) ==
  PostQuitMessage(LogEvent(W, Line("Window destroyed, stopping message loop.", <<>>)), 0)

\* case WM_CLIPBOARDUPDATE (lines 105-107)
OnClipboardUpdate(W) ==
  LogEvent(W, Line("Clipboard content changed (Copy/Paste detected).", <<>>))

\* DBT_DEVTYP_DEVICEINTERFACE (lines 115-145)
OnDeviceInterface(W, wParam, pDevInf) ==
  LET devPathA == ConvertPath(pDevInf.name) IN
  IF IsEqualGUID(pDevInf.classguid, GUID_DEVINTERFACE_USB_DEVICE) THEN
    IF wParam = DBT_DEVICEARRIVAL
    THEN LogEvent(W, Line("USB Device Plugged In: ", devPathA))
    ELSE LogEvent(W, Line("USB Device Removed: ", devPathA))
  ELSE
    IF wParam = DBT_DEVICEARRIVAL
    THEN LogEvent(W, Line("Non-USB Device Interface Arrival (Potential Driver/Software Install?): ", devPathA))
    ELSE LogEvent(W, Line("Non-USB Device Interface Removal: ", devPathA))

OnVolume_DecodesRemoval(W, wParam, pVol) ==
  IF wParam = DBT_DEVICEARRIVAL THEN
    LogEvent(W, Line("Volume/Drive Mounted: ", <<DecodeDriveLetter(pVol.unitmask)>>))
  ELSE IF wParam = DBT_DEVICEREMOVECOMPLETE THEN
    LogEvent(W, Line("Volume/Drive Removed.", <<DecodeDriveLetter(pVol.unitmask)>>))
  ELSE W

\* DBT_DEVTYP_VOLUME (lines 149-166)
OnVolume(W, wParam, pVol) ==
  IF wParam = DBT_DEVICEARRIVAL THEN
    LogEvent(W, Line("Volume/Drive Mounted: ", <<DecodeDriveLetter(pVol.unitmask)>>))
  ELSE IF wParam = DBT_DEVICEREMOVECOMPLETE THEN
    LogEvent(W, Line("Volume/Drive Removed.", <<>>))
  ELSE W

ClassifyDeviceChange_LogsUnknownType(W, wParam, pHdr) ==
  IF wParam = DBT_DEVICEARRIVAL \/ wParam = DBT_DEVICEREMOVECOMPLETE THEN
    IF ~pHdr.null /\ pHdr.devicetype = DBT_DEVTYP_DEVICEINTERFACE THEN
      OnDeviceInterface(W, wParam, pHdr)
    ELSE IF ~pHdr.null /\ pHdr.devicetype = DBT_DEVTYP_VOLUME THEN
      OnVolume(W, wParam, pHdr)
    ELSE LogEvent(W, Line("Unrecognized device change: ", <<wParam>>))
  ELSE W

ClassifyDeviceChange_AnyAction(W, wParam, pHdr) ==
  IF ~pHdr.null /\ pHdr.devicetype = DBT_DEVTYP_DEVICEINTERFACE THEN
    OnDeviceInterface(W, wParam, pHdr)
  ELSE IF ~pHdr.null /\ pHdr.devicetype = DBT_DEVTYP_VOLUME THEN
    OnVolume(W, wParam, pHdr)
  ELSE W

\* The body of case WM_DEVICECHANGE (lines 112-167)
ClassifyDeviceChange(W, wParam, pHdr) ==
  IF wParam = DBT_DEVICEARRIVAL \/ wParam = DBT_DEVICEREMOVECOMPLETE THEN
    IF ~pHdr.null /\ pHdr.devicetype = DBT_DEVTYP_DEVICEINTERFACE THEN
      OnDeviceInterface(W, wParam, pHdr)
    ELSE IF ~pHdr.null /\ pHdr.devicetype = DBT_DEVTYP_VOLUME THEN
      OnVolume(W, wParam, pHdr)
    ELSE W
  ELSE W

OnDeviceChange_LogsEveryChange(W, wParam, lParam) ==
  LogEvent(ClassifyDeviceChange(W, wParam, lParam),
           Line("WM_DEVICECHANGE message received", <<wParam>>))

\* case WM_DEVICECHANGE (lines 109-173)
OnDeviceChange(W, wParam, lParam) == ClassifyDeviceChange(W, wParam, lParam)

DestroyWindow_NoNotify(W) ==
  IF W.windowExists THEN
    [Call(W, "DestroyWindow", TRUE)
       EXCEPT !.windowExists = FALSE, !.clipListener = FALSE, !.devNotify = FALSE,
              !.queue = SelectSeq(@, LAMBDA m : m.hwnd = "NULL")]
  ELSE Call(W, "DestroyWindow", FALSE)

\* DestroyWindow: the window procedure gets WM_DESTROY while the window still
\* exists; then the window, its subscriptions and the messages posted to it
\* are gone.  On a handle whose window is gone the call fails.
DestroyWindow(W) ==
  IF W.windowExists THEN
    LET W1 == Call(W, "DestroyWindow", TRUE)
        W2 == OnDestroy(W1)
    IN [W2 EXCEPT !.windowExists = FALSE, !.clipListener = FALSE, !.devNotify = FALSE,
                  !.queue = SelectSeq(@, LAMBDA m : m.hwnd = "NULL")]
  ELSE Call(W, "DestroyWindow", FALSE)

\* default: DefWindowProc (lines 175-177); its WM_CLOSE destroys the window.
DefWindowProc(W, uMsg) ==
  IF uMsg = "WM_CLOSE" THEN DestroyWindow(W) ELSE W

WindowProc(W, uMsg, wParam, lParam) ==
  CASE uMsg = "WM_DESTROY" -> OnDestroy(W)
    [] uMsg = "WM_CLIPBOARDUPDATE" -> OnClipboardUpdate(W)
    [] uMsg = "WM_DEVICECHANGE" -> OnDeviceChange(W, wParam, lParam)
    [] OTHER -> DefWindowProc(W, uMsg)

(***************************************************************************)
(* The subscription calls.  result = 0 is success, otherwise the error     *)
(* code GetLastError reports.                                              *)
(***************************************************************************)
Results == {0} \cup ErrorCodes

\* AddClipboardFormatListener(g_hwnd)
AddClipboardFormatListener(W, result) ==
  IF result = 0
  THEN [Call(W, "AddClipboardFormatListener", TRUE) EXCEPT !.clipListener = TRUE]
  ELSE Call(W, "AddClipboardFormatListener", FALSE)
RemoveClipboardFormatListener_IfRegistered(W) ==
  IF \E i \in 1..Len(W.calls) :
       W.calls[i].api = "AddClipboardFormatListener" /\ W.calls[i].ok
  THEN [Call(W, "RemoveClipboardFormatListener", W.windowExists /\ W.clipListener)
          EXCEPT !.clipListener = FALSE]
  ELSE W

\* RemoveClipboardFormatListener(g_hwnd): fails on a window that is gone or
\* is not a listener; the result is not looked at.
RemoveClipboardFormatListener(W) ==
  [Call(W, "RemoveClipboardFormatListener", W.windowExists /\ W.clipListener)
     EXCEPT !.clipListener = FALSE]

RegisterDeviceNotifications_ReturnsTrue(W, result) ==
  IF result # 0 THEN
    [W |-> LogError(Call(W, "RegisterDeviceNotification", FALSE),
                    "RegisterDeviceNotification", result),
     ret |-> TRUE]
  ELSE
    [W |-> LogEvent([Call(W, "RegisterDeviceNotification", TRUE) EXCEPT !.devNotify = TRUE],
                    Line("Successfully registered for device notifications.", <<>>)),
     ret |-> TRUE]

\* RegisterDeviceNotifications (lines 182-205): the world after, and the
\* value returned.
RegisterDeviceNotifications(W, result) ==
  IF result # 0 THEN
    [W |-> LogError(Call(W, "RegisterDeviceNotification", FALSE),
                    "RegisterDeviceNotification", result),
     ret |-> FALSE]
  ELSE
    [W |-> LogEvent([Call(W, "RegisterDeviceNotification", TRUE) EXCEPT !.devNotify = TRUE],
                    Line("Successfully registered for device notifications.", <<>>)),
     ret |-> TRUE]

(***************************************************************************)
(* main (lines 208-310), one action per step.                              *)
(***************************************************************************)
Return(code) ==
  /\ exitCode' = code
  /\ pc' = "done"

\* Lines 210-219 with GetExecutableDirectory (lines 82-94).
\* moduleFileName: GetModuleFileNameW's result; currentPathThrows: whether
\* the fallback std::filesystem::current_path() throws.
ResolveLogPath ==
  /\ pc = "resolve_path"
  /\ \E moduleFileName \in Results, currentPathThrows \in BOOLEAN :
       LET printed(W) ==
             Cout(Cout(W, Line("Project Directory (Executable Location): ", <<>>)),
                  Line("Log file path: ", <<>>))
           failed == LogError(Cerr(World, Line("FATAL: Failed to get executable path. Error code: ",
                                               <<moduleFileName>>)),
                              "GetExecutableDirectory/GetModuleFileNameW", moduleFileName)
       IN
       IF moduleFileName = 0 THEN
         /\ ~currentPathThrows
         /\ Commit(printed(World))
         /\ pc' = "open_log"
         /\ UNCHANGED exitCode
       ELSE IF ~currentPathThrows THEN
         /\ Commit(printed(failed))
         /\ pc' = "open_log"
         /\ UNCHANGED exitCode
       ELSE
         /\ Commit(Cerr(failed, Line("FATAL: Could not determine executable directory: ", <<>>)))
         /\ Return(1)
  /\ UNCHANGED <<g_hwnd, msg, injected, arrived, handled>>

\* Lines 224-233.
OpenLogFile ==
  /\ pc = "open_log"
  /\ \E opened \in BOOLEAN :
       IF ~opened THEN
         /\ Commit(Cerr(World, Line("FATAL: Could not open log file: ", <<>>)))
         /\ Return(1)
       ELSE
         /\ Commit(LogEvent(LogEvent([World EXCEPT !.logOpen = TRUE, !.logBad = FALSE],
                                     Line("--- SecurityMonitor Started ---", <<>>)),
                            Line("Project Directory: ", <<>>)))
         /\ pc' = "register_class"
         /\ UNCHANGED exitCode
  /\ UNCHANGED <<g_hwnd, msg, injected, arrived, handled>>

\* Lines 236-247.
RegisterWindowClass ==
  /\ pc = "register_class"
  /\ \E result \in Results :
       IF result # 0 THEN
         /\ Commit([LogError(World, "RegisterClassW", result) EXCEPT !.logOpen = FALSE])
         /\ Return(1)
       ELSE
         /\ Commit(World)
         /\ pc' = "create_window"
         /\ UNCHANGED exitCode
  /\ UNCHANGED <<g_hwnd, msg, injected, arrived, handled>>

CreateMessageWindow_NoReturn ==
  /\ pc = "create_window"
  /\ \E result \in Results :
       IF result # 0 THEN
         /\ Commit(LogError(Call(World, "CreateWindowExW", FALSE),
                            "CreateWindowExW (Message Window)", result))
         /\ UNCHANGED g_hwnd
       ELSE
         /\ Commit(LogEvent([Call(World, "CreateWindowExW", TRUE) EXCEPT !.windowExists = TRUE],
                            Line("Message-only window created successfully.", <<>>)))
         /\ g_hwnd' = "HWND"
  /\ pc' = "register_clipboard"
  /\ UNCHANGED <<exitCode, msg, injected, arrived, handled>>

\* Lines 251-269.
CreateMessageWindow ==
  /\ pc = "create_window"
  /\ \E result \in Results :
       IF result # 0 THEN
         /\ Commit([LogError(Call(World, "CreateWindowExW", FALSE),
                             "CreateWindowExW (Message Window)", result)
                      EXCEPT !.logOpen = FALSE])
         /\ Return(1)
         /\ UNCHANGED g_hwnd
       ELSE
         /\ Commit(LogEvent([Call(World, "CreateWindowExW", TRUE) EXCEPT !.windowExists = TRUE],
                            Line("Message-only window created successfully.", <<>>)))
         /\ g_hwnd' = "HWND"
         /\ pc' = "register_clipboard"
         /\ UNCHANGED exitCode
  /\ UNCHANGED <<msg, injected, arrived, handled>>

RegisterClipboard_GivesUpOnFailure ==
  /\ pc = "register_clipboard"
  /\ \E result \in Results :
       LET W1 == AddClipboardFormatListener(World, result) IN
       IF result # 0 THEN
         /\ Commit(LogEvent(LogEvent(LogError(W1, "AddClipboardFormatListener", result),
                         Line("WARNING: Failed to register clipboard listener. Copy/Paste events will not be logged.", <<>>)),
                         Line("Starting message loop. Monitoring active...", <<>>)))
         /\ pc' = "GetMessage"
       ELSE
         /\ Commit(LogEvent(W1, Line("Successfully registered clipboard listener.", <<>>)))
         /\ pc' = "register_device"
  /\ UNCHANGED <<exitCode, g_hwnd, msg, injected, arrived, handled>>

\* Lines 272-278.
RegisterClipboard ==
  /\ pc = "register_clipboard"
  /\ \E result \in Results :
       LET W1 == AddClipboardFormatListener(World, result) IN
       IF result # 0 THEN
         Commit(LogEvent(LogError(W1, "AddClipboardFormatListener", result),
                         Line("WARNING: Failed to register clipboard listener. Copy/Paste events will not be logged.", <<>>)))
       ELSE
         Commit(LogEvent(W1, Line("Successfully registered clipboard listener.", <<>>)))
  /\ pc' = "register_device"
  /\ UNCHANGED <<exitCode, g_hwnd, msg, injected, arrived, handled>>

\* Lines 281-289.
RegisterDevice ==
  /\ pc = "register_device"
  /\ \E result \in Results :
       LET r == RegisterDeviceNotifications(World, result)
           W1 == IF ~r.ret
                 THEN LogEvent(r.W, Line("WARNING: Failed to register device notifications. USB/Device events may not be logged accurately.", <<>>))
                 ELSE r.W
       IN Commit(LogEvent(W1, Line("Starting message loop. Monitoring active...", <<>>)))
  /\ msg' = EmptyMsg
  /\ pc' = "GetMessage"
  /\ UNCHANGED <<exitCode, g_hwnd, injected, arrived, handled>>

NextInQueue_Newest(q) == Len(q)

\* GetMessage retrieves the oldest posted message.
NextInQueue(q) == 1

RemoveAt(q, i) == SubSeq(q, 1, i - 1) \o SubSeq(q, i + 1, Len(q))

\* Line 290: GetMessage(&msg, NULL, 0, 0) > 0.  A posted message is retrieved
\* first; with none left, a pending PostQuitMessage becomes WM_QUIT; with
\* neither, the call blocks.
GetMessage ==
  /\ pc = "GetMessage"
  /\ IF queue # <<>> THEN
       LET i == NextInQueue(queue) IN
       /\ msg' = queue[i]
       /\ queue' = RemoveAt(queue, i)
       /\ pc' = IF queue[i].message = "WM_QUIT" THEN "cleanup" ELSE "DispatchMessage"
       /\ UNCHANGED <<quitPending, quitCode>>
     ELSE
       /\ quitPending
       /\ msg' = Msg("NULL", "WM_QUIT", quitCode, NullPayload)
       /\ quitPending' = FALSE
       /\ pc' = "cleanup"
       /\ UNCHANGED <<queue, quitCode>>
  /\ UNCHANGED <<exitCode, g_hwnd, console, logFile, cerr, logOpen, logBad, windowExists,
                 clipListener, devNotify, calls, diskFull, injected, arrived, handled>>

\* Lines 291-292: DispatchMessage calls WindowProc for a window's message.
DispatchMessage ==
  /\ pc = "DispatchMessage"
  /\ Commit(IF msg.hwnd = "NULL" THEN World
            ELSE WindowProc(World, msg.message, msg.wParam, msg.lParam))
  /\ handled' = Append(handled, msg)
  /\ pc' = "GetMessage"
  /\ UNCHANGED <<exitCode, g_hwnd, msg, injected, arrived>>

ExitCodeOf_Zero(m) == 0

\* return (int)msg.wParam;
ExitCodeOf(m) == m.wParam

\* Lines 296-309.
Cleanup ==
  /\ pc = "cleanup"
  /\ LET W1 == LogEvent(World, Line("--- SecurityMonitor Stopping ---", <<>>))
         W2 == RemoveClipboardFormatListener(W1)
         W3 == DestroyWindow(W2)
     IN Commit([W3 EXCEPT !.logOpen = FALSE])
  /\ Return(ExitCodeOf(msg))
  /\ UNCHANGED <<g_hwnd, msg, injected, arrived, handled>>

(***************************************************************************)
(* The environment.                                                        *)
(***************************************************************************)
\* Messages the environment posts to the window.
WindowMessages ==
  { Msg("HWND", "WM_CLIPBOARDUPDATE", 0, NullPayload),
    Msg("HWND", "WM_DEVICECHANGE", DBT_DEVICEARRIVAL,
        InterfacePayload(GUID_DEVINTERFACE_USB_DEVICE, <<85>>)),
    Msg("HWND", "WM_DEVICECHANGE", DBT_DEVICEREMOVECOMPLETE, VolumePayload({2, 3})),
    Msg("HWND", "WM_DEVICECHANGE", DBT_DEVICEARRIVAL, OtherPayload(DBT_DEVTYP_PORT)),
    Msg("HWND", "WM_CLOSE", 0, NullPayload),
    Msg("HWND", "WM_DESTROY", 0, NullPayload) }

\* Exit codes a posted WM_QUIT carries.
QuitCodes == {0, 3}

\* PostMessage(g_hwnd, ...) by the system or another process.
PostMessage ==
  /\ windowExists
  /\ pc \in {"register_clipboard", "register_device", "GetMessage", "DispatchMessage"}
  /\ injected < MaxMsgs
  /\ \E m \in WindowMessages :
       /\ queue' = Append(queue, m)
       /\ arrived' = Append(arrived, m)
  /\ injected' = injected + 1
  /\ UNCHANGED <<pc, exitCode, g_hwnd, msg, console, logFile, cerr, logOpen, logBad,
                 windowExists, clipListener, devNotify, quitPending, quitCode, calls,
                 diskFull, handled>>

\* PostThreadMessage(thread, WM_QUIT, code, 0) by another process.
PostThreadQuit ==
  /\ pc \in {"register_clipboard", "register_device", "GetMessage", "DispatchMessage"}
  /\ injected < MaxMsgs
  /\ \E code \in QuitCodes :
       LET m == Msg("NULL", "WM_QUIT", code, NullPayload) IN
       /\ queue' = Append(queue, m)
       /\ arrived' = Append(arrived, m)
  /\ injected' = injected + 1
  /\ UNCHANGED <<pc, exitCode, g_hwnd, msg, console, logFile, cerr, logOpen, logBad,
                 windowExists, clipListener, devNotify, quitPending, quitCode, calls,
                 diskFull, handled>>

\* The disk fills up, or space is freed, while the log file is open.
DiskChanges ==
  /\ logOpen
  /\ diskFull' = ~diskFull
  /\ UNCHANGED <<pc, exitCode, g_hwnd, msg, console, logFile, cerr, logOpen, logBad,
                 windowExists, clipListener, devNotify, queue, quitPending, quitCode,
                 calls, injected, arrived, handled>>

(***************************************************************************)
(* Specifications.                                                         *)
(***************************************************************************)
\* The process starts; full: whether the disk is full.
InitState(full) ==
  /\ pc = "resolve_path"
  /\ exitCode = "none"
  /\ g_hwnd = "NULL"
  /\ msg = EmptyMsg
  /\ console = <<>>
  /\ logFile = <<>>
  /\ cerr = <<>>
  /\ logOpen = FALSE
  /\ logBad = FALSE
  /\ windowExists = FALSE
  /\ clipListener = FALSE
  /\ devNotify = FALSE
  /\ queue = <<>>
  /\ quitPending = FALSE
  /\ quitCode = 0
  /\ calls = <<>>
  /\ diskFull = full
  /\ injected = 0
  /\ arrived = <<>>
  /\ handled = <<>>

Init == InitState(FALSE)

MainStep ==
  \/ ResolveLogPath
  \/ OpenLogFile
  \/ RegisterWindowClass
  \/ CreateMessageWindow
  \/ RegisterClipboard
  \/ RegisterDevice
  \/ GetMessage
  \/ DispatchMessage
  \/ Cleanup

Next ==
  \/ MainStep
  \/ PostMessage
  \/ PostThreadQuit
  \/ DiskChanges

Spec == Init /\ [][Next]_vars

\* Runs for the liveness properties: the disk is full, or is not, for the
\* whole run; main runs whenever it can (a blocked GetMessage waits for the
\* environment).
InitFair == \E full \in BOOLEAN : InitState(full)

NextFair ==
  \/ MainStep
  \/ PostMessage
  \/ PostThreadQuit

FairSpec == InitFair /\ [][NextFair]_vars /\ WF_vars(MainStep)

(***************************************************************************)
(* Classification of one message.  The engine is running after a startup   *)
(* in which every call succeeded, and one message, drawn from every action *)
(* code, device type, class GUID, path and unit mask within the bounds, is *)
(* in the queue.                                                           *)
(***************************************************************************)
ActionCodes ==
  {DBT_DEVICEARRIVAL, DBT_DEVICEREMOVECOMPLETE, DBT_DEVICEQUERYREMOVE, DBT_DEVNODES_CHANGED}

\* 'U', '\', e-acute, the euro sign, a high and a low surrogate
WideChars == {85, 92, 233, 8364, 55357, 56832}

RECURSIVE PathsUpTo(_)
PathsUpTo(n) ==
  IF n = 0 THEN {<<>>}
  ELSE PathsUpTo(n - 1) \cup {Append(p, c) : p \in PathsUpTo(n - 1), c \in WideChars}

\* The USB class, the null GUID, and the USB class with one byte of Data1,
\* of Data3 or of Data4 changed.
ClassGuids ==
  {GUID_DEVINTERFACE_USB_DEVICE, GUID_NULL,
   [GUID_DEVINTERFACE_USB_DEVICE EXCEPT ![1] = 17],
   [GUID_DEVINTERFACE_USB_DEVICE EXCEPT ![7] = 211],
   [GUID_DEVINTERFACE_USB_DEVICE EXCEPT ![16] = 236]}

RECURSIVE MasksUpTo(_)
MasksUpTo(n) ==
  IF n = 0 THEN {{}}
  ELSE MasksUpTo(n - 1) \cup {m \cup {i} : m \in MasksUpTo(n - 1), i \in 0..(DwordBits - 1)}

DevicePayloads ==
  {NullPayload}
  \cup {InterfacePayload(g, p) : g \in ClassGuids, p \in PathsUpTo(MaxPathLen)}
  \cup {VolumePayload(m) : m \in MasksUpTo(MaxMaskBits)}
  \cup {OtherPayload(t) : t \in {DBT_DEVTYP_OEM, DBT_DEVTYP_PORT, DBT_DEVTYP_HANDLE}}

ClassifyInputs ==
  {Msg("HWND", "WM_DEVICECHANGE", a, p) : a \in ActionCodes, p \in DevicePayloads}
  \cup {Msg("HWND", u, 0, NullPayload) :
          u \in {"WM_CLIPBOARDUPDATE", "WM_DESTROY", "WM_CLOSE", "WM_TIMER"}}

\* std::cout and the log file after a startup without failures.
StartupConsole ==
  <<Line("Project Directory (Executable Location): ", <<>>),
    Line("Log file path: ", <<>>),
    Line("--- SecurityMonitor Started ---", <<>>),
    Line("Project Directory: ", <<>>),
    Line("Message-only window created successfully.", <<>>),
    Line("Successfully registered clipboard listener.", <<>>),
    Line("Successfully registered for device notifications.", <<>>),
    Line("Starting message loop. Monitoring active...", <<>>)>>

StartupCalls ==
  <<[api |-> "CreateWindowExW", live |-> FALSE, ok |-> TRUE],
    [api |-> "AddClipboardFormatListener", live |-> TRUE, ok |-> TRUE],
    [api |-> "RegisterDeviceNotification", live |-> TRUE, ok |-> TRUE]>>

\* The state in which main first calls GetMessage after such a startup.
Monitoring ==
  /\ pc = "GetMessage"
  /\ exitCode = "none"
  /\ g_hwnd = "HWND"
  /\ msg = EmptyMsg
  /\ console = StartupConsole
  /\ logFile = SubSeq(StartupConsole, 3, Len(StartupConsole))
  /\ cerr = <<>>
  /\ logOpen = TRUE
  /\ logBad = FALSE
  /\ windowExists = TRUE
  /\ clipListener = TRUE
  /\ devNotify = TRUE
  /\ quitPending = FALSE
  /\ quitCode = 0
  /\ calls = StartupCalls
  /\ diskFull = FALSE
  /\ handled = <<>>

InitClassify ==
  /\ Monitoring
  /\ \E m \in ClassifyInputs :
       /\ queue = <<m>>
       /\ arrived = <<m>>
  /\ injected = 1

NextClassify ==
  \/ GetMessage
  \/ DispatchMessage
  \/ Cleanup

ClassifySpec == InitClassify /\ [][NextClassify]_vars

\* Spec reaches the state ClassifySpec starts from, one message posted.
ReachesMonitoring == Monitoring /\ injected = 1 /\ Len(queue) = 1 /\ arrived = queue

(***************************************************************************)
(* Vocabulary of the properties: the event a log line records, and the     *)
(* event a message is to produce.                                          *)
(***************************************************************************)
ClipboardText == "Clipboard content changed (Copy/Paste detected)."
UsbArrivalText == "USB Device Plugged In: "
UsbRemovalText == "USB Device Removed: "
OtherArrivalText == "Non-USB Device Interface Arrival (Potential Driver/Software Install?): "
OtherRemovalText == "Non-USB Device Interface Removal: "
VolumeArrivalText == "Volume/Drive Mounted: "
VolumeRemovalText == "Volume/Drive Removed."
DeviceWarningText == "WARNING: Failed to register device notifications. USB/Device events may not be logged accurately."
ClipboardWarningText == "WARNING: Failed to register clipboard listener. Copy/Paste events will not be logged."
StartingLoopText == "Starting message loop. Monitoring active..."
StoppingText == "--- SecurityMonitor Stopping ---"
StartedText == "--- SecurityMonitor Started ---"

EventTags ==
  {"ClipboardChanged", "DeviceInterfaceArrival", "DeviceInterfaceRemoval",
   "VolumeArrival", "VolumeRemoval", "Unrecognized"}

\* line records an event with variant tag t
LineHasTag(line, t) ==
  \/ t = "ClipboardChanged" /\ line.text = ClipboardText
  \/ t = "DeviceInterfaceArrival" /\ line.text \in {UsbArrivalText, OtherArrivalText}
  \/ t = "DeviceInterfaceRemoval" /\ line.text \in {UsbRemovalText, OtherRemovalText}
  \/ t = "VolumeArrival" /\ line.text = VolumeArrivalText
  \/ t = "VolumeRemoval" /\ line.text = VolumeRemovalText

IsEventLine(line) == \E t \in EventTags : LineHasTag(line, t)
TagOf(line) == CHOOSE t \in EventTags : LineHasTag(line, t)
IsUsbLine(line) == line.text \in {UsbArrivalText, UsbRemovalText}

RECURSIVE TagsOfLines(_)
TagsOfLines(lines) ==
  IF lines = <<>> THEN <<>>
  ELSE (IF IsEventLine(Head(lines)) THEN <<TagOf(Head(lines))>> ELSE <<>>)
       \o TagsOfLines(Tail(lines))

IsArrivalOrRemoval(m) ==
  m.message = "WM_DEVICECHANGE" /\ m.wParam \in {DBT_DEVICEARRIVAL, DBT_DEVICEREMOVECOMPLETE}
IsInterfaceNotification(m) ==
  IsArrivalOrRemoval(m) /\ ~m.lParam.null /\ m.lParam.devicetype = DBT_DEVTYP_DEVICEINTERFACE
IsVolumeNotification(m) ==
  IsArrivalOrRemoval(m) /\ ~m.lParam.null /\ m.lParam.devicetype = DBT_DEVTYP_VOLUME
IsUnknownTypeNotification(m) ==
  IsArrivalOrRemoval(m) /\ ~m.lParam.null
  /\ m.lParam.devicetype \notin {DBT_DEVTYP_DEVICEINTERFACE, DBT_DEVTYP_VOLUME}

\* the tag of the event message m is to produce: none, or one
TagsOfMessage(m) ==
  IF m.message = "WM_CLIPBOARDUPDATE" THEN <<"ClipboardChanged">>
  ELSE IF IsInterfaceNotification(m) THEN
    <<IF m.wParam = DBT_DEVICEARRIVAL THEN "DeviceInterfaceArrival" ELSE "DeviceInterfaceRemoval">>
  ELSE IF IsVolumeNotification(m) THEN
    <<IF m.wParam = DBT_DEVICEARRIVAL THEN "VolumeArrival" ELSE "VolumeRemoval">>
  ELSE <<>>

RECURSIVE TagsOfMessages(_)
TagsOfMessages(ms) ==
  IF ms = <<>> THEN <<>> ELSE TagsOfMessage(Head(ms)) \o TagsOfMessages(Tail(ms))

CountLines(lines, text) == Cardinality({i \in 1..Len(lines) : lines[i].text = text})
HasLine(lines, text) == \E i \in 1..Len(lines) : lines[i].text = text
CountMessages(ms, message) == Cardinality({i \in 1..Len(ms) : ms[i].message = message})
Called(api, ok) == \E i \in 1..Len(calls) : calls[i].api = api /\ calls[i].ok = ok
CountCalls(api) == Cardinality({i \in 1..Len(calls) : calls[i].api = api})

\* the lines LogEvent was called with (std::cout minus main's two own lines)
RECURSIVE DropWhileNot(_, _)
DropWhileNot(lines, text) ==
  IF lines = <<>> \/ Head(lines).text = text THEN lines
  ELSE DropWhileNot(Tail(lines), text)
SinceStarted(lines) == DropWhileNot(lines, StartedText)

InLoop == pc \in {"GetMessage", "DispatchMessage"}
LeftLoop == pc = "cleanup" \/ (pc = "done" /\ HasLine(console, StartingLoopText))

(***************************************************************************)
(* C1  Order preservation.  The messages dispatched so far are the first   *)
(* messages posted, in the order they were posted; the events on std::cout *)
(* are the events of exactly those messages, in that order, so the event   *)
(* of message k is logged before message k+1 is retrieved (while message   *)
(* k+1 is held in msg, not yet dispatched, its event is not logged); and   *)
(* as long as no write has failed the log file holds the same lines.       *)
(***************************************************************************)
C1_OrderPreserved ==
  /\ Len(handled) <= Len(arrived)
  /\ handled = SubSeq(arrived, 1, Len(handled))
  /\ TagsOfLines(console) = TagsOfMessages(handled)
  /\ pc = "DispatchMessage" => msg = arrived[Len(handled) + 1]
  /\ (logOpen /\ ~logBad) => logFile = SinceStarted(console)

C1_Witness ==
  /\ Len(handled) = 2
  /\ handled[1].message = "WM_DEVICECHANGE"
  /\ handled[2].message = "WM_CLIPBOARDUPDATE"
  /\ TagsOfLines(logFile) = <<"DeviceInterfaceArrival", "ClipboardChanged">>

(***************************************************************************)
(* C2  Partial subscription failure.  When device registration has failed  *)
(* and clipboard registration has succeeded, main is in (or has been       *)
(* through) the message loop and has not exited with the failure code,     *)
(* every clipboard message dispatched has its ClipboardChanged line, and   *)
(* exactly one WARNING line names the device category (none the clipboard).*)
(***************************************************************************)
DeviceFailedClipboardOk ==
  /\ Called("RegisterDeviceNotification", FALSE)
  /\ Called("AddClipboardFormatListener", TRUE)

C2_PartialSubscriptionFailure ==
  DeviceFailedClipboardOk =>
    /\ InLoop \/ LeftLoop
    /\ HasLine(console, StartingLoopText)
    /\ (pc = "done" => exitCode # 1)
    /\ CountLines(console, DeviceWarningText) = 1
    /\ CountLines(console, ClipboardWarningText) = 0
    /\ CountLines(console, ClipboardText) = CountMessages(handled, "WM_CLIPBOARDUPDATE")
    /\ (logOpen /\ ~logBad) =>
         /\ CountLines(logFile, DeviceWarningText) = 1
         /\ CountLines(logFile, ClipboardText) = CountMessages(handled, "WM_CLIPBOARDUPDATE")

C2_Witness ==
  /\ DeviceFailedClipboardOk
  /\ CountMessages(handled, "WM_CLIPBOARDUPDATE") = 2
  /\ CountLines(logFile, ClipboardText) = 2
  /\ CountLines(logFile, DeviceWarningText) = 1

(***************************************************************************)
(* C3  Fatal startup errors.  When the log path could not be resolved      *)
(* (GetExecutableDirectory threw), the log file could not be opened, the   *)
(* window class could not be registered or the window could not be         *)
(* created, main has returned a non-zero code, never called GetMessage,    *)
(* and made no subscription call.                                          *)
(***************************************************************************)
StartupFailed ==
  \/ HasLine(cerr, "FATAL: Could not determine executable directory: ")
  \/ HasLine(cerr, "FATAL: Could not open log file: ")
  \/ HasLine(console, "ERROR in RegisterClassW")
  \/ Called("CreateWindowExW", FALSE)

C3_FatalStartupErrors ==
  StartupFailed =>
    /\ pc = "done"
    /\ exitCode # 0
    /\ ~HasLine(console, StartingLoopText)
    /\ handled = <<>> /\ msg = EmptyMsg
    /\ CountCalls("AddClipboardFormatListener") = 0
    /\ CountCalls("RegisterDeviceNotification") = 0
    /\ ~clipListener /\ ~devNotify

C3_Witness ==
  /\ Called("CreateWindowExW", FALSE)
  /\ exitCode = 1
  /\ HasLine(logFile, "ERROR in CreateWindowExW (Message Window)")

(***************************************************************************)
(* C4  Termination liveness.  Once a termination message (WM_DESTROY,      *)
(* WM_CLOSE, WM_QUIT) has been posted, main eventually leaves the loop,    *)
(* logs the stopping line, cleans up (window gone, log closed) and         *)
(* returns; and main is never past the loop unless such a message was      *)
(* posted and WM_QUIT is what GetMessage retrieved last.                   *)
(***************************************************************************)
IsTermination(m) == m.message \in {"WM_DESTROY", "WM_CLOSE", "WM_QUIT"}
TerminationPosted == \E i \in 1..Len(arrived) : IsTermination(arrived[i])
Stopped ==
  /\ pc = "done"
  /\ HasLine(console, StoppingText)
  /\ ~windowExists /\ ~clipListener /\ ~logOpen

C4_TerminationLiveness ==
  /\ TerminationPosted ~> Stopped
  /\ [](LeftLoop => (TerminationPosted /\ msg.message = "WM_QUIT"))

C4_Witness ==
  /\ Stopped
  /\ Len(handled) = 2
  /\ handled[1].message = "WM_DESTROY"
  /\ handled[2].message = "WM_CLIPBOARDUPDATE"

(***************************************************************************)
(* C5  Exit code.  When main has returned after the loop, its exit code is *)
(* the wParam of the WM_QUIT that ended the loop: 0 when that WM_QUIT came *)
(* from PostQuitMessage(0) (no WM_QUIT was posted), and otherwise the code *)
(* of a posted WM_QUIT.                                                    *)
(***************************************************************************)
PostedQuitCodes == {arrived[i].wParam : i \in {j \in 1..Len(arrived) : arrived[j].message = "WM_QUIT"}}

C5_ExitCode ==
  (pc = "done" /\ LeftLoop) =>
    /\ msg.message = "WM_QUIT"
    /\ exitCode = msg.wParam
    /\ PostedQuitCodes = {} => exitCode = 0
    /\ exitCode # 0 => exitCode \in PostedQuitCodes

C5_Witness ==
  /\ pc = "done"
  /\ exitCode = 3
  /\ CountMessages(handled, "WM_CLIPBOARDUPDATE") = 1

(***************************************************************************)
(* Classification properties, stated of ClassifySpec: m is the one message *)
(* posted, and NewLines are the lines its dispatch added to std::cout.     *)
(***************************************************************************)
\* the one message has been dispatched
Dispatched == pc = "GetMessage" /\ Len(handled) = 1
TheMessage == handled[1]
NewLines == SubSeq(console, Len(StartupConsole) + 1, Len(console))
NewFileLines == SubSeq(logFile, Len(StartupConsole) - 1, Len(logFile))

\* lowest-set-bit-wins over bits 0..25: 'A' + the least set position, '?' if none
LowestSetBitLetter(mask) ==
  LET low == {i \in mask : i < DriveLetters}
  IN IF low = {} THEN CharQuestion
     ELSE CharA + CHOOSE i \in low : \A j \in low : i <= j

(***************************************************************************)
(* C6  USB class discrimination.  An arrival or removal notification of    *)
(* type DEVICEINTERFACE yields exactly one line; it is a USB line if and   *)
(* only if the class GUID equals GUID_DEVINTERFACE_USB_DEVICE, and it is   *)
(* an arrival line for an arrival and a removal line for a removal.        *)
(***************************************************************************)
C6_UsbClassDiscrimination ==
  LET m == TheMessage IN
    (Dispatched /\ IsInterfaceNotification(m)) =>
      /\ Len(NewLines) = 1
      /\ NewFileLines = NewLines
      /\ IsUsbLine(NewLines[1]) <=> (m.lParam.classguid = GUID_DEVINTERFACE_USB_DEVICE)
      /\ LineHasTag(NewLines[1],
                    IF m.wParam = DBT_DEVICEARRIVAL THEN "DeviceInterfaceArrival"
                    ELSE "DeviceInterfaceRemoval")

C6_Witness ==
  /\ pc = "GetMessage" /\ Len(handled) = 1
  /\ handled[1].wParam = DBT_DEVICEREMOVECOMPLETE
  /\ handled[1].lParam.classguid = [GUID_DEVINTERFACE_USB_DEVICE EXCEPT ![16] = 236]
  /\ handled[1].lParam.name = <<92, 85>>
  /\ NewLines = <<Line(OtherRemovalText, <<92, 85>>)>>

(***************************************************************************)
(* C7  Unit-mask decoding.  A volume arrival yields one line whose drive   *)
(* letter is 'A' + i for the lowest set bit i among bits 0..25 of the unit *)
(* mask (so 'A' + i for a mask with bit i alone), and '?' when none of     *)
(* those bits is set.                                                      *)
(***************************************************************************)
C7_UnitMaskDecoding ==
  LET m == TheMessage IN
    (Dispatched /\ IsVolumeNotification(m) /\ m.wParam = DBT_DEVICEARRIVAL) =>
      /\ NewLines = <<Line(VolumeArrivalText, <<LowestSetBitLetter(m.lParam.unitmask)>>)>>
      /\ \A i \in 0..(DriveLetters - 1) :
           m.lParam.unitmask = {i} => NewLines[1].arg = <<CharA + i>>
      /\ (\A i \in 0..(DriveLetters - 1) : i \notin m.lParam.unitmask)
           <=> NewLines[1].arg = <<CharQuestion>>

C7_Witness ==
  /\ pc = "GetMessage" /\ Len(handled) = 1
  /\ handled[1].wParam = DBT_DEVICEARRIVAL
  /\ handled[1].lParam.unitmask = {2, 5}
  /\ NewFileLines = <<Line(VolumeArrivalText, <<67>>)>>

(***************************************************************************)
(* C8  Classification totality.  Whatever the action code, device type,    *)
(* class GUID, unit mask or path (empty included, null pointer included),  *)
(* the dispatch of a clipboard, device-change or other message ends with   *)
(* main back at GetMessage, the engine intact, and at most one line added: *)
(* an event line with exactly one variant tag.                             *)
(***************************************************************************)
C8_ClassificationTotal ==
  LET m == TheMessage IN
    (Len(handled) = 1 /\ m.message \in {"WM_CLIPBOARDUPDATE", "WM_DEVICECHANGE", "WM_TIMER"}) =>
      /\ pc = "GetMessage"
      /\ windowExists /\ logOpen /\ ~logBad /\ ~quitPending /\ cerr = <<>>
      /\ Len(NewLines) <= 1
      /\ NewFileLines = NewLines
      /\ \A i \in 1..Len(NewLines) :
           Cardinality({t \in EventTags : LineHasTag(NewLines[i], t)}) = 1
      /\ TagsOfLines(NewLines) = TagsOfMessage(m)

C8_Witness ==
  /\ pc = "GetMessage" /\ Len(handled) = 1
  /\ handled[1].wParam = DBT_DEVICEARRIVAL
  /\ handled[1].lParam.devicetype = DBT_DEVTYP_DEVICEINTERFACE
  /\ handled[1].lParam.name = <<>>
  /\ NewLines = <<Line(OtherArrivalText, <<>>)>>

(***************************************************************************)
(* C9  Unknown device type, as claimed: an arrival or removal notification *)
(* whose device type is neither DEVICEINTERFACE nor VOLUME yields exactly  *)
(* one line, an Unrecognized event carrying the raw action code.           *)
(***************************************************************************)
C9_UnknownTypeLogged ==
  LET m == TheMessage IN
    (Dispatched /\ IsUnknownTypeNotification(m)) =>
      /\ Len(NewLines) = 1
      /\ NewLines[1].arg = <<m.wParam>>

(***************************************************************************)
(* C9  as amended: such a notification yields no event; nothing is written *)
(* to std::cout, the log file or std::cerr.                                *)
(***************************************************************************)
C9_UnknownTypeIgnored ==
  LET m == TheMessage IN
    (Dispatched /\ IsUnknownTypeNotification(m)) =>
      /\ NewLines = <<>>
      /\ NewFileLines = <<>>
      /\ cerr = <<>>

C9_Witness ==
  /\ pc = "GetMessage" /\ Len(handled) = 1
  /\ handled[1].wParam = DBT_DEVICEARRIVAL
  /\ ~handled[1].lParam.null
  /\ handled[1].lParam.devicetype = DBT_DEVTYP_PORT
  /\ console = StartupConsole

(***************************************************************************)
(* C10  Volume removal, as claimed: a removal notification of type VOLUME  *)
(* yields a VolumeRemoval line carrying the drive letter decoded from the  *)
(* unit mask, lowest set bit first, '?' when no bit is set.                *)
(***************************************************************************)
C10_RemovalCarriesLetter ==
  LET m == TheMessage IN
    (Dispatched /\ IsVolumeNotification(m) /\ m.wParam = DBT_DEVICEREMOVECOMPLETE) =>
      /\ Len(NewLines) = 1
      /\ LineHasTag(NewLines[1], "VolumeRemoval")
      /\ NewLines[1].arg = <<LowestSetBitLetter(m.lParam.unitmask)>>

(***************************************************************************)
(* C10  as amended: a removal notification of type VOLUME yields one       *)
(* VolumeRemoval line that carries no drive letter, whatever the unit      *)
(* mask.                                                                   *)
(***************************************************************************)
C10_RemovalWithoutLetter ==
  LET m == TheMessage IN
    (Dispatched /\ IsVolumeNotification(m) /\ m.wParam = DBT_DEVICEREMOVECOMPLETE) =>
      /\ NewLines = <<Line(VolumeRemovalText, <<>>)>>
      /\ NewFileLines = NewLines

C10_Witness ==
  /\ pc = "GetMessage" /\ Len(handled) = 1
  /\ handled[1].wParam = DBT_DEVICEREMOVECOMPLETE
  /\ handled[1].lParam.unitmask = {2}
  /\ NewLines = <<Line(VolumeRemovalText, <<>>)>>

(***************************************************************************)
(* C11  Unknown action codes are ignored.  The dispatch of a device-change *)
(* message whose action code is neither DBT_DEVICEARRIVAL nor              *)
(* DBT_DEVICEREMOVECOMPLETE, whatever its payload, writes nothing          *)
(* (std::cout, log file, std::cerr) and changes nothing of the engine      *)
(* (window, subscriptions, log stream, quit flag, queue, calls made); main *)
(* goes back to GetMessage.                                                *)
(***************************************************************************)
EngineState ==
  <<exitCode, g_hwnd, console, logFile, cerr, logOpen, logBad, windowExists,
    clipListener, devNotify, queue, quitPending, quitCode, calls>>

IsUnknownAction(m) ==
  m.message = "WM_DEVICECHANGE"
  /\ m.wParam \notin {DBT_DEVICEARRIVAL, DBT_DEVICEREMOVECOMPLETE}

C11_UnknownActionIgnored ==
  [][(handled' # handled /\ IsUnknownAction(msg)) =>
       (UNCHANGED EngineState /\ pc' = "GetMessage" /\ handled' = Append(handled, msg))]_vars

C11_Witness ==
  /\ Dispatched
  /\ TheMessage.wParam = DBT_DEVNODES_CHANGED
  /\ TheMessage.lParam.devicetype = DBT_DEVTYP_DEVICEINTERFACE
  /\ TheMessage.lParam.classguid = GUID_DEVINTERFACE_USB_DEVICE
  /\ TheMessage.lParam.name = <<85>>
  /\ console = StartupConsole
  /\ windowExists /\ clipListener /\ devNotify /\ logOpen

(***************************************************************************)
(* C12  Registration is independent and single-shot.  No registration call *)
(* is made before the window exists; once main is past the registration    *)
(* steps (in the loop or beyond) AddClipboardFormatListener and            *)
(* RegisterDeviceNotification have each been called exactly once, whatever *)
(* the result of the other, and the counts never grow afterwards.          *)
(***************************************************************************)
C12_RegistrationOnce ==
  /\ CountCalls("AddClipboardFormatListener") =
       (IF pc = "register_device" \/ InLoop \/ LeftLoop THEN 1 ELSE 0)
  /\ CountCalls("RegisterDeviceNotification") = (IF InLoop \/ LeftLoop THEN 1 ELSE 0)
  /\ (CountCalls("AddClipboardFormatListener") > 0) => Called("CreateWindowExW", TRUE)

C12_Witness ==
  /\ Called("AddClipboardFormatListener", FALSE)
  /\ Called("RegisterDeviceNotification", TRUE)
  /\ Len(handled) = 2
  /\ pc = "done"

(***************************************************************************)
(* C13  No event after termination.  Once WindowProc has handled           *)
(* WM_DESTROY and logged "Window destroyed, stopping message loop.", main  *)
(* retrieves no further message for dispatch and no event line follows the *)
(* marker on std::cout, whatever is still in the queue.                    *)
(***************************************************************************)
DestroyedText == "Window destroyed, stopping message loop."
ShutdownMarkerLogged == HasLine(console, DestroyedText)

C13_NoEventAfterTermination ==
  ShutdownMarkerLogged =>
    /\ pc # "DispatchMessage"
    /\ \A i \in 1..Len(DropWhileNot(console, DestroyedText)) :
         ~IsEventLine(DropWhileNot(console, DestroyedText)[i])

(***************************************************************************)
(* C14  Conditional unsubscribe (as stated).  In a run whose clipboard     *)
(* registration failed RemoveClipboardFormatListener is never called, and  *)
(* it is called only in runs whose registration succeeded.                 *)
(***************************************************************************)
C14_ConditionalUnsubscribe ==
  CountCalls("RemoveClipboardFormatListener") > 0
    => Called("AddClipboardFormatListener", TRUE)

(***************************************************************************)
(* C14  (amended)  Unconditional unsubscribe.  Cleanup calls               *)
(* RemoveClipboardFormatListener exactly once in every run that leaves the *)
(* loop, whatever the result of the registration; it is never called       *)
(* before cleanup, and in a run whose registration failed the call is made *)
(* on a window that is not a listener and fails.                           *)
(***************************************************************************)
C14_UnconditionalUnsubscribe ==
  /\ CountCalls("RemoveClipboardFormatListener") =
       (IF pc = "done" /\ LeftLoop THEN 1 ELSE 0)
  /\ Called("AddClipboardFormatListener", FALSE)
       => ~Called("RemoveClipboardFormatListener", TRUE)

C14_Witness ==
  /\ pc = "done"
  /\ Called("AddClipboardFormatListener", FALSE)
  /\ Called("RemoveClipboardFormatListener", FALSE)
  /\ HasLine(console, ClipboardWarningText)
  /\ HasLine(console, StoppingText)

(***************************************************************************)
(* C15  Sink write failure is non-fatal.  A dispatch made while the log    *)
(* file cannot be written (stream failed or disk full) reports each lost   *)
(* line once on std::cerr, writes nothing to the file, still classifies    *)
(* the message on std::cout and returns to GetMessage; the lines of the    *)
(* file are always a prefix of the lines LogEvent was given, so a lost     *)
(* line is never written later; a LogEvent call made while the file is not *)
(* open is reported on std::cerr; and the loop is left only by WM_QUIT.    *)
(***************************************************************************)
FatalWriteText == "FATAL: Failed to write to log file"
NotOpenText == "ERROR: Log file is not open. Cannot log: "
PathErrorText == "ERROR in GetExecutableDirectory/GetModuleFileNameW"
SinkFailing == logOpen /\ (logBad \/ diskFull)

C15_WriteFailureNonFatal ==
  /\ [](/\ Len(logFile) <= Len(SinceStarted(console))
        /\ logFile = SubSeq(SinceStarted(console), 1, Len(logFile))
        /\ CountLines(cerr, NotOpenText) = CountLines(console, PathErrorText)
        /\ ~HasLine(logFile, PathErrorText)
        /\ LeftLoop => msg.message = "WM_QUIT")
  /\ [][(handled' # handled /\ SinkFailing) =>
          /\ pc' = "GetMessage"
          /\ exitCode' = exitCode
          /\ logFile' = logFile
          /\ cerr' = cerr \o [i \in 1..(Len(console') - Len(console)) |->
                                Line(FatalWriteText, <<>>)]
          /\ TagsOfLines(console') = TagsOfMessages(handled')]_vars

C15_Witness ==
  /\ pc = "GetMessage"
  /\ logBad
  /\ Len(handled) = 2
  /\ CountLines(console, ClipboardText) = 2
  /\ CountLines(logFile, ClipboardText) = 0
  /\ CountLines(cerr, FatalWriteText) = 2
  /\ HasLine(logFile, StartingLoopText)

(***************************************************************************)
(* C16  Context released exactly once.  DestroyWindow takes effect on the  *)
(* window at most once and only after the loop has been left, and every    *)
(* RemoveClipboardFormatListener and DestroyWindow call is made on a       *)
(* window that still exists when the call is made.                         *)
(***************************************************************************)
ContextOperations == {"RemoveClipboardFormatListener", "DestroyWindow"}

C16_ContextReleasedOnce ==
  /\ Cardinality({i \in 1..Len(calls) : calls[i].api = "DestroyWindow" /\ calls[i].ok}) <= 1
  /\ (g_hwnd = "HWND" /\ ~windowExists) => pc = "done"
  /\ \A i \in 1..Len(calls) : calls[i].api \in ContextOperations => calls[i].live

(***************************************************************************)
(* C17  Stopping line last (as stated).  In every run that has gone        *)
(* through cleanup the last line handed to LogEvent is                     *)
(* "--- SecurityMonitor Stopping ---".                                     *)
(***************************************************************************)
CleanedUp == pc = "done" /\ LeftLoop
LastLine(lines) == lines[Len(lines)]

C17_StoppingLineLast ==
  CleanedUp => LastLine(console).text = StoppingText

(***************************************************************************)
(* C17  (amended)  In every run that has gone through cleanup the Stopping *)
(* line is logged once.  It is the last line when the window was already   *)
(* destroyed inside the loop; when the window still exists at cleanup,     *)
(* DestroyWindow sends WM_DESTROY and the window procedure's "Window       *)
(* destroyed, stopping message loop." follows it as the last line.  No     *)
(* event line follows the Stopping line in either case.                    *)
(***************************************************************************)
WindowAliveAtCleanup ==
  calls[Len(calls)].api = "DestroyWindow" /\ calls[Len(calls)].live

C17_StoppingLineThenDestroy ==
  CleanedUp =>
    /\ CountLines(console, StoppingText) = 1
    /\ IF WindowAliveAtCleanup
       THEN /\ LastLine(console).text = DestroyedText
            /\ console[Len(console) - 1].text = StoppingText
       ELSE /\ LastLine(console).text = StoppingText
            /\ calls[Len(calls)].api = "DestroyWindow"

C17_Witness ==
  /\ CleanedUp
  /\ exitCode = 3
  /\ WindowAliveAtCleanup
  /\ LastLine(console).text = DestroyedText
  /\ LastLine(logFile).text = DestroyedText
  /\ CountLines(console, ClipboardText) = 1

(***************************************************************************)
(* C18  The log stream's failure state is sticky.  Once a write has failed *)
(* the stream stays failed for the rest of the run, also after the disk    *)
(* has room again: every later step leaves the file as it is, and reports  *)
(* each line it hands to LogEvent as a write failure on std::cerr, until   *)
(* the file is closed.                                                     *)
(***************************************************************************)
C18_FailureSticky ==
  [][logBad =>
       /\ logBad'
       /\ logFile' = logFile
       /\ logOpen =>
            cerr' = cerr \o [i \in 1..(Len(console') - Len(console)) |->
                               Line(FatalWriteText, <<>>)]]_vars

C18_Witness ==
  /\ pc = "done"
  /\ logBad /\ ~diskFull
  /\ HasLine(logFile, StartingLoopText)
  /\ CountLines(console, ClipboardText) = 1
  /\ CountLines(logFile, ClipboardText) = 0
  /\ HasLine(console, StoppingText)
  /\ ~HasLine(logFile, StoppingText)
  /\ CountLines(cerr, FatalWriteText) >= 2

====
